---- MODULE Spec2Model ----
(***************************************************************************)
(* libwav (src/src/wav.c): a WavFile handle over one stdio stream.         *)
(*                                                                         *)
(* The stdio stream is modelled at byte level: the file image, the stream  *)
(* position, the end-of-file and error indicators, and the fopen() mode    *)
(* (read / write / append).  The chunk model is the packed WavMasterChunk, *)
(* read and written as its little-endian byte image.                       *)
(***************************************************************************)
EXTENDS Integers, Sequences, FiniteSets, TLC

VARIABLES
    bytes,        \* contents of the file on disk (sequence of bytes)
    exists,       \* whether the file exists
    open,         \* self->fp != NULL
    mode,         \* self->mode, the canonical mode string (<<>> when NULL)
    pos,          \* stream position of self->fp
    eof,          \* end-of-file indicator of self->fp
    err,          \* error indicator of self->fp
    error_code,   \* self->error_code
    chunk,        \* self->chunk
    dead,         \* the process was terminated (failed assert, SIGFPE)
    last,         \* the last call: name, arguments, result, state before it
    wlog,         \* frames wav_write stored since the file was last truncated
    omode,        \* the mode argument the handle was opened with
    usable,       \* the last wav_open / wav_reopen reported WAV_OK
    calls         \* number of library calls made so far

vars == <<bytes, exists, open, mode, pos, eof, err, error_code, chunk, dead,
          last, wlog, omode, usable, calls>>

----------------------------------------------------------------------------
(* Bounds *)

MaxChannels == 2      \* channel counts passed to wav_set_num_channels
MaxCount    == 2      \* frame counts passed to wav_read / wav_write
MaxWritten  == 3      \* frames written through one handle
MaxFileLen  == 120    \* bytes the file may grow to
MaxCalls    == 5      \* library calls in one run of Spec
MaxCloseCalls == 6    \* library calls in one run of SpecClose
MaxFmtCalls   == 4    \* library calls in one run of SpecFmt

----------------------------------------------------------------------------
(* Integers, bytes, strings *)

\* sequencing: the result v of one statement, handed to the statements K
\* that follow it
Bind(v, K(_)) == K(v)

Min(a, b) == IF a <= b THEN a ELSE b
Max(a, b) == IF a >= b THEN a ELSE b

RECURSIVE Pow256(_)
Pow256(n) == IF n = 0 THEN 1 ELSE 256 * Pow256(n - 1)

U16(x) == x % 65536
\* uint32_t / size_t arithmetic: every value the model reaches stays below
\* 2^31, the largest integer TLC represents, so no wrap-around occurs
U32(x) == x

\* C integer division truncates toward zero
CDiv(a, b) == IF a >= 0 THEN a \div b ELSE -((-a) \div b)

\* little-endian image of the n low bytes of v (two's complement)
LE(v, n) == [i \in 1..n |-> (v \div Pow256(i - 1)) % 256]

RECURSIVE UVal(_)
UVal(bs) == IF bs = <<>> THEN 0 ELSE bs[1] + 256 * UVal(Tail(bs))

\* the signed value of a little-endian two's complement image
SVal(bs) ==
    IF bs = <<>> THEN 0
    ELSE LET n   == Len(bs)
             top == IF bs[n] >= 128 THEN bs[n] - 256 ELSE bs[n]
         IN  UVal(SubSeq(bs, 1, n - 1)) + top * Pow256(n - 1)

Zeros(n) == [i \in 1..n |-> 0]

\* memcpy of src over dst at 0-based offset off; bytes past dst are dropped
Overlay(dst, off, src) ==
    [i \in 1..Len(dst) |->
        IF i > off /\ i <= off + Len(src) THEN src[i - off] ELSE dst[i]]

\* character i of a C string (strings are sequences of characters)
Chr(s, i) == IF i <= Len(s) THEN s[i] ELSE "NUL"

\* strncmp(a, b, n) == 0
strncmp0(a, b, n) ==
    \A i \in 1..n :
        (\A j \in 1..(i - 1) : Chr(a, j) # "NUL") => Chr(a, i) = Chr(b, i)

----------------------------------------------------------------------------
(* Program constants *)

WAV_FORMAT_PCM        == 1
WAV_FORMAT_IEEE_FLOAT == 3
WAV_FORMAT_ALAW       == 6
WAV_FORMAT_MULAW      == 7
WAV_FORMAT_EXTENSIBLE == 65534

WAV_RIFF_HEADER_SIZE == 8

\* the four-character ids as the little-endian uint32 the code compares with
WAV_RIFF_CHUNK_ID   == UVal(<<82, 73, 70, 70>>)     \* "RIFF"
WAV_FORMAT_CHUNK_ID == UVal(<<102, 109, 116, 32>>)  \* "fmt "
WAV_FACT_CHUNK_ID   == UVal(<<102, 97, 99, 116>>)   \* "fact"
WAV_DATA_CHUNK_ID   == UVal(<<100, 97, 116, 97>>)   \* "data"
WAV_WAVE_ID         == UVal(<<87, 65, 86, 69>>)     \* "WAVE"
LIST_CHUNK_ID       == UVal(<<76, 73, 83, 84>>)     \* "LIST", a foreign chunk

default_sub_format == <<1, 0, 0, 0, 0, 0, 16, 0, 128, 0, 0, 170, 0, 56, 155, 113>>

wav_container_sizes == <<0, 1, 2, 4, 4>>   \* indexed from 0 in the code

\* byte offsets of the packed structures inside WavMasterChunk
OffFormatChunk == 12
OffFactChunk   == 60
OffDataChunk   == 72
SizeofMaster   == 80
SizeofWavFormatChunk == 48

\* &format_chunk.ext_size - &format_chunk.format_tag: a difference of two
\* uint16_t pointers, counted in uint16_t elements (byte offsets 24 and 8)
ExtSizeMinusFormatTag == (24 - 8) \div 2
\* &format_chunk.valid_bits_per_sample - &format_chunk.format_tag (26 and 8)
ValidBitsMinusFormatTag == (26 - 8) \div 2

----------------------------------------------------------------------------
(* The packed chunk model and its byte image *)

ZeroChunk ==
    [id |-> 0, size |-> 0, wave_id |-> 0,
     format_chunk |->
        [id |-> 0, size |-> 0, format_tag |-> 0, n_channels |-> 0,
         sample_rate |-> 0, avg_bytes_per_sec |-> 0, block_align |-> 0,
         bits_per_sample |-> 0, ext_size |-> 0, valid_bits_per_sample |-> 0,
         channel_mask |-> 0, sub_format |-> Zeros(16)],
     fact_chunk |-> [id |-> 0, size |-> 0, sample_length |-> 0],
     data_chunk |-> [id |-> 0, size |-> 0]]

Encode(c) ==
    LE(c.id, 4) \o LE(c.size, 4) \o LE(c.wave_id, 4) \o
    LE(c.format_chunk.id, 4) \o LE(c.format_chunk.size, 4) \o
    LE(c.format_chunk.format_tag, 2) \o LE(c.format_chunk.n_channels, 2) \o
    LE(c.format_chunk.sample_rate, 4) \o
    LE(c.format_chunk.avg_bytes_per_sec, 4) \o
    LE(c.format_chunk.block_align, 2) \o
    LE(c.format_chunk.bits_per_sample, 2) \o
    LE(c.format_chunk.ext_size, 2) \o
    LE(c.format_chunk.valid_bits_per_sample, 2) \o
    LE(c.format_chunk.channel_mask, 4) \o c.format_chunk.sub_format \o
    LE(c.fact_chunk.id, 4) \o LE(c.fact_chunk.size, 4) \o
    LE(c.fact_chunk.sample_length, 4) \o
    LE(c.data_chunk.id, 4) \o LE(c.data_chunk.size, 4)

Fld(img, off, n) == UVal(SubSeq(img, off + 1, off + n))

Decode(img) ==
    [id |-> Fld(img, 0, 4), size |-> Fld(img, 4, 4), wave_id |-> Fld(img, 8, 4),
     format_chunk |->
        [id |-> Fld(img, 12, 4), size |-> Fld(img, 16, 4),
         format_tag |-> Fld(img, 20, 2), n_channels |-> Fld(img, 22, 2),
         sample_rate |-> Fld(img, 24, 4), avg_bytes_per_sec |-> Fld(img, 28, 4),
         block_align |-> Fld(img, 32, 2), bits_per_sample |-> Fld(img, 34, 2),
         ext_size |-> Fld(img, 36, 2),
         valid_bits_per_sample |-> Fld(img, 38, 2),
         channel_mask |-> Fld(img, 40, 4),
         sub_format |-> SubSeq(img, 45, 60)],
     fact_chunk |-> [id |-> Fld(img, 60, 4), size |-> Fld(img, 64, 4),
                     sample_length |-> Fld(img, 68, 4)],
     data_chunk |-> [id |-> Fld(img, 72, 4), size |-> Fld(img, 76, 4)]]

----------------------------------------------------------------------------
(* The stdio stream.  A machine state m is a record of the variables' values *)
(* plus rc, the count returned by the last fread / fwrite.                   *)

Readable(md)  == Chr(md, 1) = "r" \/ (\E i \in 1..Len(md) : md[i] = "+")
Writable(md)  == Chr(md, 1) \in {"w", "a"} \/ (\E i \in 1..Len(md) : md[i] = "+")
Appending(md) == Chr(md, 1) = "a"

\* fread(ptr, n, 1, fp): the bytes delivered (a short read delivers what is left)
FreadBytes(m, n) ==
    IF ~Readable(m.mode) THEN <<>>
    ELSE SubSeq(m.bytes, m.pos + 1, Min(m.pos + n, Len(m.bytes)))

\* the stream after fread(ptr, size, nmemb, fp); rc counts complete items
Fread(m, size, nmemb) ==
    IF ~Readable(m.mode) THEN [m EXCEPT !.err = TRUE, !.rc = 0]
    ELSE LET got == Len(FreadBytes(m, size * nmemb))
         IN  [m EXCEPT !.pos = m.pos + got,
                       !.eof = m.eof \/ got < size * nmemb,
                       !.rc  = IF size = 0 THEN 0 ELSE got \div size]

\* fread(((uint8_t*)&self->chunk) + off, n, 1, self->fp)
FreadChunk(m, off, n) ==
    LET data == FreadBytes(m, n)
        m1   == Fread(m, n, 1)
    IN  [m1 EXCEPT !.chunk = Decode(Overlay(Encode(m.chunk), off, data))]

\* fwrite(data, 1, Len(data), fp): in append mode every write goes to the end
\* of the file; a write past the end fills the gap with zeros
Fwrite(m, data) ==
    IF ~Writable(m.mode) THEN [m EXCEPT !.err = TRUE, !.rc = 0]
    ELSE LET at   == IF Appending(m.mode) THEN Len(m.bytes) ELSE m.pos
             base == IF at + Len(data) > Len(m.bytes)
                     THEN m.bytes \o Zeros(at + Len(data) - Len(m.bytes))
                     ELSE m.bytes
         IN  [m EXCEPT !.bytes = Overlay(base, at, data),
                       !.pos   = at + Len(data),
                       !.rc    = Len(data)]

\* fseek(fp, p, SEEK_SET) with p >= 0; rewind(fp) also clears the error indicator
Fseek(m, p) == [m EXCEPT !.pos = p, !.eof = FALSE]
Rewind(m)   == [m EXCEPT !.pos = 0, !.eof = FALSE, !.err = FALSE]

\* fopen(filename, md): NULL is modelled by open = FALSE
FopenFails(m, md) ==
    \/ Chr(md, 1) = "r" /\ ~m.exists
    \/ (\E i \in 1..Len(md) : md[i] = "x") /\ m.exists

Fopen(m, md) ==
    IF FopenFails(m, md) THEN [m EXCEPT !.open = FALSE]
    ELSE LET content == IF Chr(md, 1) = "w" THEN <<>> ELSE m.bytes
         IN  [m EXCEPT !.open = TRUE, !.exists = TRUE, !.bytes = content,
                       !.pos = IF Chr(md, 1) = "a" THEN Len(content) ELSE 0,
                       !.eof = FALSE, !.err = FALSE]

----------------------------------------------------------------------------
(* Accessors *)

\* wav_get_header_size counting a fact chunk whether or not one is present
wav_get_header_size_fact(c) ==
    WAV_RIFF_HEADER_SIZE + 4 +
    WAV_RIFF_HEADER_SIZE + c.format_chunk.size +
    WAV_RIFF_HEADER_SIZE +
    WAV_RIFF_HEADER_SIZE + c.fact_chunk.size

wav_get_header_size(c) ==
    WAV_RIFF_HEADER_SIZE + 4 +
    WAV_RIFF_HEADER_SIZE + c.format_chunk.size +
    WAV_RIFF_HEADER_SIZE +
    (IF c.fact_chunk.id = WAV_FACT_CHUNK_ID
     THEN WAV_RIFF_HEADER_SIZE + c.fact_chunk.size ELSE 0)

wav_get_num_channels(c) == c.format_chunk.n_channels

\* integer division by zero is undefined: the build either traps (SIGFPE) or
\* yields 0; dz names the outcome, and DivTraps says the call does not return
UDiv(a, b, dz) == IF b = 0 THEN 0 ELSE a \div b
DivTraps(b, dz) == b = 0 /\ dz = "trap"

wav_get_sample_size(c, dz) ==
    UDiv(c.format_chunk.block_align, c.format_chunk.n_channels, dz)

wav_get_length(c, dz) ==
    UDiv(c.data_chunk.size, c.format_chunk.block_align, dz)

\* wav_container_sizes[sample_size]; an index past the table reads whatever
\* follows it, modelled as 0
wav_calc_container_size(sample_size) ==
    IF sample_size + 1 <= Len(wav_container_sizes)
    THEN wav_container_sizes[sample_size + 1] ELSE 0

wav_eof(m) ==
    m.eof \/ m.pos = wav_get_header_size(m.chunk) + m.chunk.data_chunk.size

----------------------------------------------------------------------------
(* Header parser and header writer *)

FormatError(m) == [m EXCEPT !.error_code = "WAV_ERR_FORMAT"]

AcceptedTags == {WAV_FORMAT_PCM, WAV_FORMAT_IEEE_FLOAT, WAV_FORMAT_ALAW,
                 WAV_FORMAT_MULAW}

\* the fact body and the data header, read when the chunk after fmt is "fact"
ParseFact(m4) ==
    Bind(FreadChunk(m4, OffFactChunk + WAV_RIFF_HEADER_SIZE,
                    m4.chunk.fact_chunk.size), LAMBDA m5 :
    IF m5.rc # 1 THEN FormatError(m5) ELSE
    Bind(FreadChunk(m5, OffDataChunk, WAV_RIFF_HEADER_SIZE), LAMBDA m6 :
    IF m6.rc # 1 THEN FormatError(m6)
    ELSE [m6 EXCEPT !.error_code = "WAV_OK"]))

\* ParseBoundary with the data-chunk size left out of the copy
ParseBoundary_nosize(m4) ==
    IF m4.chunk.fact_chunk.id = WAV_FACT_CHUNK_ID THEN ParseFact(m4)
    ELSE IF m4.chunk.fact_chunk.id = WAV_DATA_CHUNK_ID THEN
        [m4 EXCEPT !.chunk.data_chunk.id   = m4.chunk.fact_chunk.id,
                   !.chunk.fact_chunk.size = 0,
                   !.error_code = "WAV_OK"]
    ELSE [m4 EXCEPT !.error_code = "WAV_OK"]

\* the part of wav_parse_header after the fact-or-data header was read
ParseBoundary(m4) ==
    IF m4.chunk.fact_chunk.id = WAV_FACT_CHUNK_ID THEN ParseFact(m4)
    ELSE IF m4.chunk.fact_chunk.id = WAV_DATA_CHUNK_ID THEN
        [m4 EXCEPT !.chunk.data_chunk.id   = m4.chunk.fact_chunk.id,
                   !.chunk.data_chunk.size = m4.chunk.fact_chunk.size,
                   !.chunk.fact_chunk.size = 0,
                   !.error_code = "WAV_OK"]
    ELSE [m4 EXCEPT !.error_code = "WAV_OK"]

wav_parse_header(m) ==
    Bind(FreadChunk(m, 0, WAV_RIFF_HEADER_SIZE), LAMBDA m1 :
    IF m1.rc # 1 \/ m1.chunk.id # WAV_RIFF_CHUNK_ID THEN FormatError(m1) ELSE
    Bind(FreadChunk(m1, 8, 4), LAMBDA m2 :
    IF m2.rc # 1 \/ m2.chunk.wave_id # WAV_WAVE_ID THEN FormatError(m2) ELSE
    Bind(FreadChunk(m2, OffFormatChunk, WAV_RIFF_HEADER_SIZE), LAMBDA m3 :
    IF m3.rc # 1 \/ m3.chunk.format_chunk.id # WAV_FORMAT_CHUNK_ID
    THEN FormatError(m3) ELSE
    Bind(FreadChunk(m3, OffFormatChunk + WAV_RIFF_HEADER_SIZE,
                    m3.chunk.format_chunk.size), LAMBDA m3b :
    IF m3b.rc # 1 THEN FormatError(m3b) ELSE
    IF m3b.chunk.format_chunk.format_tag \notin AcceptedTags
    THEN FormatError(m3b) ELSE
    Bind(FreadChunk(m3b, OffFactChunk, WAV_RIFF_HEADER_SIZE), LAMBDA m4 :
    IF m4.rc # 1 THEN FormatError(m4) ELSE
    ParseBoundary(m4))))))

\* the RIFF size wav_write_header computes
\* the RIFF size without the increment that makes it even
RiffSize_nopad(c) ==
    LET s0 == U32(4 + (WAV_RIFF_HEADER_SIZE + c.format_chunk.size) +
                  (WAV_RIFF_HEADER_SIZE + c.data_chunk.size))
    IN  IF c.fact_chunk.id = WAV_FACT_CHUNK_ID
        THEN U32(s0 + WAV_RIFF_HEADER_SIZE + c.fact_chunk.size) ELSE s0

RiffSize(c) ==
    LET s0 == U32(4 + (WAV_RIFF_HEADER_SIZE + c.format_chunk.size) +
                  (WAV_RIFF_HEADER_SIZE + c.data_chunk.size))
        s1 == IF c.fact_chunk.id = WAV_FACT_CHUNK_ID
              THEN U32(s0 + WAV_RIFF_HEADER_SIZE + c.fact_chunk.size) ELSE s0
    IN  IF s1 % 2 # 0 THEN U32(s1 + 1) ELSE s1

OsError(m) == [m EXCEPT !.error_code = "WAV_ERR_OS"]

\* fwrite(((uint8_t*)&self->chunk) + off, n, 1, self->fp)
\* the count returned is 1 when the n > 0 bytes were all written, else 0
FwriteChunk(m, off, n) ==
    [Fwrite(m, SubSeq(Encode(m.chunk), off + 1, Min(off + n, SizeofMaster)))
        EXCEPT !.rc = IF @ > 0 THEN 1 ELSE 0]

wav_write_header(m) ==
    Bind(FwriteChunk([Fseek(m, 0) EXCEPT !.chunk.size = RiffSize(m.chunk)],
                     0, WAV_RIFF_HEADER_SIZE + 4), LAMBDA m1 :
    IF m1.rc # 1 THEN OsError(m1) ELSE
    Bind(FwriteChunk(m1, OffFormatChunk,
                     WAV_RIFF_HEADER_SIZE + m1.chunk.format_chunk.size),
         LAMBDA m2 :
    IF m2.rc # 1 THEN OsError(m2) ELSE
    Bind(IF m2.chunk.fact_chunk.id = WAV_FACT_CHUNK_ID
         THEN FwriteChunk(m2, OffFactChunk,
                          WAV_RIFF_HEADER_SIZE + m2.chunk.fact_chunk.size)
         ELSE m2, LAMBDA m3 :
    IF m3.rc # 1 THEN OsError(m3) ELSE
    Bind(FwriteChunk(m3, OffDataChunk, WAV_RIFF_HEADER_SIZE), LAMBDA m4 :
    IF m4.rc # 1 THEN OsError(m4) ELSE
    [m4 EXCEPT !.error_code = "WAV_OK"]))))

----------------------------------------------------------------------------
(* Lifecycle *)

\* the chain of strncmp tests that resolves the mode argument; <<>> is NULL
CanonicalMode(md) ==
    IF strncmp0(md, <<"r">>, 1) \/ strncmp0(md, <<"r", "b">>, 2)
        THEN <<"r", "b">>
    ELSE IF strncmp0(md, <<"r", "+">>, 2) \/ strncmp0(md, <<"r", "b", "+">>, 3)
            \/ strncmp0(md, <<"r", "+", "b">>, 3)
        THEN <<"r", "b", "+">>
    ELSE IF strncmp0(md, <<"w">>, 1) \/ strncmp0(md, <<"w", "b">>, 2)
        THEN <<"w", "b">>
    ELSE IF strncmp0(md, <<"w", "+">>, 2) \/ strncmp0(md, <<"w", "b", "+">>, 3)
            \/ strncmp0(md, <<"w", "+", "b">>, 3)
        THEN <<"w", "b", "+">>
    ELSE IF strncmp0(md, <<"w", "x">>, 2) \/ strncmp0(md, <<"w", "b", "x">>, 3)
        THEN <<"w", "b", "x">>
    ELSE IF strncmp0(md, <<"w", "+", "x">>, 3)
            \/ strncmp0(md, <<"w", "b", "+", "x">>, 4)
            \/ strncmp0(md, <<"w", "+", "b", "x">>, 4)
        THEN <<"w", "b", "+", "x">>
    ELSE IF strncmp0(md, <<"a">>, 1) \/ strncmp0(md, <<"a", "b">>, 2)
        THEN <<"a", "b">>
    ELSE IF strncmp0(md, <<"a", "+">>, 2) \/ strncmp0(md, <<"a", "b", "+">>, 3)
            \/ strncmp0(md, <<"a", "+", "b">>, 3)
        THEN <<"a", "b", "+">>
    ELSE <<>>

\* the write-mode defaults wav_init stores before it writes the header
DefaultChunk(c) ==
    [c EXCEPT
        !.id = WAV_RIFF_CHUNK_ID,
        !.wave_id = WAV_WAVE_ID,
        !.format_chunk.id = WAV_FORMAT_CHUNK_ID,
        !.format_chunk.size = ExtSizeMinusFormatTag,
        !.format_chunk.format_tag = WAV_FORMAT_PCM,
        !.format_chunk.n_channels = 2,
        !.format_chunk.sample_rate = 44100,
        !.format_chunk.avg_bytes_per_sec = 44100 * 2 * 2,
        !.format_chunk.block_align = 4,
        !.format_chunk.bits_per_sample = 16,
        !.format_chunk.sub_format = default_sub_format,
        !.fact_chunk.id = WAV_DATA_CHUNK_ID,
        !.fact_chunk.size = 0,
        !.data_chunk.id = WAV_DATA_CHUNK_ID,
        !.data_chunk.size = 0]

\* memset(self, 0, sizeof(WavFile))
Zeroed(m) ==
    [m EXCEPT !.open = FALSE, !.mode = <<>>, !.pos = 0, !.eof = FALSE,
              !.err = FALSE, !.error_code = "WAV_OK", !.chunk = ZeroChunk]

\* the part of wav_init that stores the defaults and writes the header
InitDefaults(q) == wav_write_header([q EXCEPT !.chunk = DefaultChunk(q.chunk)])

wav_init(m, md) ==
    Bind(CanonicalMode(md), LAMBDA cm :
    IF cm = <<>> THEN [Zeroed(m) EXCEPT !.error_code = "WAV_ERR_MODE"] ELSE
    Bind(Fopen([Zeroed(m) EXCEPT !.mode = cm], cm), LAMBDA f :
    IF ~f.open THEN OsError(f) ELSE
    IF cm[1] = "r" THEN wav_parse_header(f) ELSE
    Bind(IF cm[1] = "a" THEN wav_parse_header(f) ELSE f, LAMBDA p :
    IF cm[1] = "a" /\ p.error_code = "WAV_OK" THEN p ELSE
    InitDefaults(IF cm[1] = "a" THEN Rewind(p) ELSE p))))

\* the modes in which wav_finalize considers writing the pad byte
FinalizePads(md) ==
    \/ strncmp0(md, <<"w", "b">>, 2) \/ strncmp0(md, <<"w", "b", "+">>, 3)
    \/ strncmp0(md, <<"w", "b", "x">>, 3)
    \/ strncmp0(md, <<"w", "b", "+", "x">>, 4)
    \/ strncmp0(md, <<"a", "b">>, 2) \/ strncmp0(md, <<"a", "b", "+">>, 3)

wav_finalize(m) ==
    IF ~m.open THEN m ELSE
    Bind(IF FinalizePads(m.mode) /\ m.chunk.data_chunk.size % 2 # 0
            /\ wav_eof(m)
         THEN Fwrite(m, <<0>>) ELSE [m EXCEPT !.rc = 1], LAMBDA p :
    IF p.rc # 1 THEN OsError(p) ELSE
    [p EXCEPT !.open = FALSE, !.error_code = "WAV_OK"])

----------------------------------------------------------------------------
(* Position *)

Die(m) == [m EXCEPT !.dead = TRUE]

\* b is the build: b.ndebug says that assert() is compiled out, b.dz is the
\* outcome of an integer division by zero
wav_tell(m, b) ==
    LET header_size == wav_get_header_size(m.chunk)
        block_align == m.chunk.format_chunk.block_align
    IN
    IF m.pos < header_size /\ ~b.ndebug THEN Die(m) ELSE
    IF DivTraps(block_align, b.dz) THEN Die(m) ELSE
    [m EXCEPT !.error_code = "WAV_OK",
              !.ret = IF block_align = 0 THEN 0
                      ELSE CDiv(m.pos - header_size, block_align)]

\* the frame offset wav_seek resolves (offset, origin) to
SeekResolved(m, offset, origin, b) ==
    IF origin = "SEEK_CUR" THEN offset + wav_tell(m, b).ret
    ELSE IF origin = "SEEK_END"
         THEN offset + wav_get_length(m.chunk, b.dz)
    ELSE offset

\* the byte offset wav_seek passes to fseek for the frame offset k
SeekTarget(m, k) == m.chunk.format_chunk.block_align

\* wav_seek without the upper bound of its range check
wav_seek_unbounded(m, offset, origin, b) ==
    IF DivTraps(m.chunk.format_chunk.block_align, b.dz) THEN Die(m) ELSE
    Bind(IF origin = "SEEK_CUR" THEN wav_tell(m, b) ELSE m, LAMBDA m1 :
    Bind(SeekResolved(m, offset, origin, b), LAMBDA k :
    IF m1.dead THEN m1 ELSE
    IF k >= 0
    THEN [Fseek(m1, SeekTarget(m1, k)) EXCEPT !.error_code = "WAV_OK",
                                              !.ret = 0]
    ELSE [m1 EXCEPT !.error_code = "WAV_ERR_PARAM", !.ret = 1]))

wav_seek(m, offset, origin, b) ==
    IF DivTraps(m.chunk.format_chunk.block_align, b.dz) THEN Die(m) ELSE
    Bind(IF origin = "SEEK_CUR" THEN wav_tell(m, b) ELSE m, LAMBDA m1 :
    Bind(SeekResolved(m, offset, origin, b), LAMBDA k :
    IF m1.dead THEN m1 ELSE
    IF k >= 0 /\ k <= wav_get_length(m.chunk, b.dz)
    THEN [Fseek(m1, SeekTarget(m1, k)) EXCEPT !.error_code = "WAV_OK",
                                              !.ret = 0]
    ELSE [m1 EXCEPT !.error_code = "WAV_ERR_PARAM", !.ret = 1]))  \* nonzero

----------------------------------------------------------------------------
(* Sample transcoder *)

\* wav_read: refused in the modes these strncmp tests match
ReadRefused(md) ==
    \/ strncmp0(md, <<"w", "b">>, 2) \/ strncmp0(md, <<"w", "b", "x">>, 3)
    \/ strncmp0(md, <<"a", "b">>, 2)

\* the test of wav_write comparing with "rb+" instead of "rb"
WriteRefused_plus(md) == strncmp0(md, <<"r", "b", "+">>, 3)

\* wav_write: refused in the modes this strncmp test matches
WriteRefused(md) == strncmp0(md, <<"r", "b">>, 2)

\* one sample read into its container: sample_size bytes copied, the rest of
\* the container filled with 0xff when the top bit of the last byte copied is
\* set and with 0x00 otherwise
Extend(sample, container_size) ==
    LET k    == Len(sample)
        fill == IF sample[k] >= 128 THEN 255 ELSE 0
    IN  [x \in 1..Max(k, container_size) |-> IF x <= k THEN sample[x] ELSE fill]

\* the de-interleaving loops of wav_read: buffers[i][j] as a signed value
Deinterleave(tmp, n_channels, sample_size, container_size, frames) ==
    [i \in 1..n_channels |->
        [j \in 1..frames |->
            LET at == (j - 1) * n_channels * sample_size + (i - 1) * sample_size
            IN  SVal(Extend(SubSeq(tmp, at + 1, at + sample_size),
                            container_size))]]

RECURSIVE Concat(_)
Concat(ss) == IF ss = <<>> THEN <<>> ELSE ss[1] \o Concat(Tail(ss))

\* the interleaving loops of wav_write: the sample_size low bytes of each
\* container, frame after frame, channel after channel inside a frame
Interleave(buffers, n_channels, sample_size, container_size, count) ==
    Concat([x \in 1..(count * n_channels) |->
        LET j == (x - 1) \div n_channels + 1
            i == ((x - 1) % n_channels) + 1
        IN  SubSeq(LE(buffers[i][j], container_size), 1, sample_size)])

\* wav_read without the clamp to the frames that remain
ClampCount_none(count, len_remain) == count

\* count = (count <= len_remain) ? count : len_remain
ClampCount(count, len_remain) ==
    IF len_remain < 0 \/ count <= len_remain THEN count ELSE len_remain

wav_read(m, count, b) ==
    LET n_channels == wav_get_num_channels(m.chunk) IN
    IF DivTraps(n_channels, b.dz) THEN Die(m) ELSE
    LET sample_size    == wav_get_sample_size(m.chunk, b.dz)
        container_size == wav_calc_container_size(sample_size)
    IN
    IF ReadRefused(m.mode)
    THEN [m EXCEPT !.error_code = "WAV_ERR_MODE", !.ret = 0] ELSE
    IF m.chunk.format_chunk.format_tag = WAV_FORMAT_EXTENSIBLE
    THEN [m EXCEPT !.error_code = "WAV_ERR_FORMAT", !.ret = 0] ELSE
    IF DivTraps(m.chunk.format_chunk.block_align, b.dz) THEN Die(m) ELSE
    Bind(wav_tell(m, b), LAMBDA m1 :
    IF m1.dead THEN m1 ELSE
    \* len_remain is a size_t: a negative difference wraps to a huge value
    Bind(wav_get_length(m.chunk, b.dz) - m1.ret, LAMBDA len_remain :
    Bind(ClampCount(count, len_remain), LAMBDA cnt :
    IF cnt = 0 THEN [m1 EXCEPT !.error_code = "WAV_OK", !.ret = 0] ELSE
    Bind(Fread(m1, sample_size, n_channels * cnt), LAMBDA m2 :
    IF m2.err THEN [OsError(m2) EXCEPT !.ret = 0] ELSE
    [m2 EXCEPT !.error_code = "WAV_OK",
               !.ret = m2.rc \div n_channels,
               !.out = Deinterleave(
                           FreadBytes(m1, sample_size * n_channels * cnt),
                           n_channels, sample_size, container_size,
                           m2.rc \div n_channels)]))))

wav_write(m, buffers, count, b) ==
    LET n_channels == wav_get_num_channels(m.chunk) IN
    IF DivTraps(n_channels, b.dz) THEN Die(m) ELSE
    LET sample_size    == wav_get_sample_size(m.chunk, b.dz)
        container_size == wav_calc_container_size(sample_size)
    IN
    IF WriteRefused(m.mode)
    THEN [m EXCEPT !.error_code = "WAV_ERR_MODE", !.ret = 0] ELSE
    IF m.chunk.format_chunk.format_tag = WAV_FORMAT_EXTENSIBLE
    THEN [m EXCEPT !.error_code = "WAV_ERR_FORMAT", !.ret = 0] ELSE
    IF count = 0 THEN [m EXCEPT !.error_code = "WAV_OK", !.ret = 0] ELSE
    Bind(wav_tell(m, b), LAMBDA m1 :
    IF m1.dead THEN m1 ELSE
    Bind(Fwrite(m1, Interleave(buffers, n_channels, sample_size,
                               container_size, count)), LAMBDA m2 :
    Bind(IF sample_size = 0 THEN 0 ELSE n_channels * count,
         LAMBDA write_count :
    IF m2.err THEN [OsError(m2) EXCEPT !.ret = 0] ELSE
    Bind([m2 EXCEPT
            !.chunk.data_chunk.size = U32(@ + write_count * sample_size),
            !.chunk.fact_chunk.sample_length =
                IF m2.chunk.fact_chunk.id = WAV_FACT_CHUNK_ID
                THEN U32(@ + write_count \div n_channels) ELSE @],
         LAMBDA m3 :
    Bind(wav_write_header(m3), LAMBDA m4 :
    IF m4.error_code # "WAV_OK" THEN [m4 EXCEPT !.ret = 0] ELSE
    \* save_pos is the position before the header was rewritten
    [Fseek(m4, m3.pos) EXCEPT !.error_code = "WAV_OK",
                              !.ret = write_count \div n_channels])))))

----------------------------------------------------------------------------
(* Format mutators *)

ModeError(m) == [m EXCEPT !.error_code = "WAV_ERR_MODE"]
ParamError(m) == [m EXCEPT !.error_code = "WAV_ERR_PARAM"]

\* the guard every setter starts with: self->mode[0] == 'r'
SetterRefused(md) == Chr(md, 1) = "r"

wav_set_format(m, format) ==
    IF SetterRefused(m.mode) THEN ModeError(m) ELSE
    LET f  == m.chunk.format_chunk
        f1 == [f EXCEPT !.format_tag = format]
        f2 == IF format # WAV_FORMAT_PCM /\ format # WAV_FORMAT_EXTENSIBLE
              THEN [f1 EXCEPT !.ext_size = 0, !.size = ValidBitsMinusFormatTag]
              ELSE IF format = WAV_FORMAT_EXTENSIBLE
              THEN [f1 EXCEPT !.ext_size = 22,
                              !.size = SizeofWavFormatChunk - WAV_RIFF_HEADER_SIZE]
              ELSE f1
        ba == IF f2.block_align # 4 /\ f2.block_align # 8 THEN 4
              ELSE f2.block_align
        f3 == IF format = WAV_FORMAT_ALAW \/ format = WAV_FORMAT_MULAW
              THEN [f2 EXCEPT !.bits_per_sample = 8]
              ELSE IF format = WAV_FORMAT_IEEE_FLOAT
              THEN [f2 EXCEPT !.block_align = ba,
                              !.bits_per_sample = IF @ > 8 * ba THEN 8 * ba ELSE @]
              ELSE f2
    IN  wav_write_header([m EXCEPT !.chunk.format_chunk = f3])

wav_set_num_channels(m, n_channels) ==
    IF SetterRefused(m.mode) THEN ModeError(m) ELSE
    IF n_channels < 1 THEN ParamError(m) ELSE
    wav_write_header([m EXCEPT
        !.chunk.format_chunk.n_channels = n_channels,
        !.chunk.format_chunk.avg_bytes_per_sec =
            U32(m.chunk.format_chunk.block_align *
                m.chunk.format_chunk.sample_rate)])

wav_set_sample_rate(m, sample_rate) ==
    IF SetterRefused(m.mode) THEN ModeError(m) ELSE
    wav_write_header([m EXCEPT
        !.chunk.format_chunk.sample_rate = sample_rate,
        !.chunk.format_chunk.avg_bytes_per_sec =
            U32(m.chunk.format_chunk.block_align * sample_rate)])

wav_set_valid_bits_per_sample(m, bits) ==
    IF SetterRefused(m.mode) THEN ModeError(m) ELSE
    LET f    == m.chunk.format_chunk
        full == (8 * f.block_align) \div f.n_channels
    IN
    IF bits < 1 \/ bits > full THEN ParamError(m) ELSE
    IF (f.format_tag = WAV_FORMAT_ALAW \/ f.format_tag = WAV_FORMAT_MULAW)
       /\ bits # 8 THEN ParamError(m) ELSE
    wav_write_header([m EXCEPT !.chunk.format_chunk =
        IF f.format_tag # WAV_FORMAT_EXTENSIBLE
        THEN [f EXCEPT !.bits_per_sample = bits]
        ELSE [f EXCEPT !.bits_per_sample = U16(full),
                       !.valid_bits_per_sample = bits]])

wav_set_sample_size(m, sample_size) ==
    IF SetterRefused(m.mode) THEN ModeError(m) ELSE
    IF sample_size < 1 THEN ParamError(m) ELSE
    LET f  == m.chunk.format_chunk
        ba == U16(sample_size * f.n_channels)
    IN
    wav_write_header([m EXCEPT !.chunk.format_chunk =
        [f EXCEPT !.block_align = ba,
                  !.avg_bytes_per_sec = U32(ba * f.sample_rate),
                  !.bits_per_sample = U16(sample_size * 8),
                  !.valid_bits_per_sample =
                      IF f.format_tag = WAV_FORMAT_EXTENSIBLE
                      THEN U16(sample_size * 8) ELSE @]])

\* wav_set_channel_mask without the test of the format tag
wav_set_channel_mask_anytag(m, channel_mask) ==
    IF SetterRefused(m.mode) THEN ModeError(m) ELSE
    wav_write_header([m EXCEPT !.chunk.format_chunk.channel_mask = channel_mask])

wav_set_channel_mask(m, channel_mask) ==
    IF SetterRefused(m.mode) THEN ModeError(m) ELSE
    IF m.chunk.format_chunk.format_tag # WAV_FORMAT_EXTENSIBLE
    THEN FormatError(m) ELSE
    wav_write_header([m EXCEPT !.chunk.format_chunk.channel_mask = channel_mask])

\* wav_set_sub_format storing the value before it tests the format tag
wav_set_sub_format_early(m, sub_format) ==
    IF SetterRefused(m.mode) THEN ModeError(m) ELSE
    IF m.chunk.format_chunk.format_tag # WAV_FORMAT_EXTENSIBLE
    THEN FormatError([m EXCEPT !.chunk.format_chunk.sub_format =
                         Overlay(@, 0, LE(sub_format, 2))]) ELSE
    wav_write_header([m EXCEPT !.chunk.format_chunk.sub_format =
        Overlay(@, 0, LE(sub_format, 2))])

wav_set_sub_format(m, sub_format) ==
    IF SetterRefused(m.mode) THEN ModeError(m) ELSE
    IF m.chunk.format_chunk.format_tag # WAV_FORMAT_EXTENSIBLE
    THEN FormatError(m) ELSE
    wav_write_header([m EXCEPT !.chunk.format_chunk.sub_format =
        Overlay(@, 0, LE(sub_format, 2))])

----------------------------------------------------------------------------
(* Inputs *)

ModeStrings ==
    { <<"r">>, <<"r", "b">>, <<"r", "+">>,
      <<"w">>, <<"w", "b">>, <<"w", "+">>, <<"w", "x">>, <<"w", "+", "x">>,
      <<"a">>, <<"a", "+">>, <<"a", "b", "+">>,
      <<"q">> }

ReadOnlyStrings  == { <<"r">>, <<"r", "b">> }
WriteOnlyStrings == { <<"w">>, <<"w", "b">>, <<"w", "x">>, <<"a">> }
ReadWriteStrings == { <<"r", "+">>, <<"w", "+">>, <<"w", "+", "x">>,
                      <<"a", "+">>, <<"a", "b", "+">> }
BasicModes       == { <<"r">>, <<"w">>, <<"a">> }
ReopenModes      == { <<"w">>, <<"q">> }

Formats     == {WAV_FORMAT_PCM, WAV_FORMAT_IEEE_FLOAT, WAV_FORMAT_ALAW,
                WAV_FORMAT_MULAW, WAV_FORMAT_EXTENSIBLE}
IoFormats   == {WAV_FORMAT_PCM, WAV_FORMAT_ALAW, WAV_FORMAT_EXTENSIBLE}
Channels    == 0..MaxChannels
IoChannels  == 1..MaxChannels
SampleRates == {8000}
SampleSizes == 0..4
IoSampleSizes == {1, 3}
ValidBits   == {0, 8, 12}
ChannelMasks == {3}
SubFormats  == {WAV_FORMAT_IEEE_FLOAT}
Counts      == 0..MaxCount
Offsets     == (-1)..1
Origins     == {"SEEK_SET", "SEEK_CUR", "SEEK_END"}
Patterns    == {"pos", "neg"}
Builds      == [ndebug : BOOLEAN, dz : {"trap", "zero"}]

\* the builds that can differ on a call made in the current state: one build
\* stands for all when no assertion can fail and no divisor is zero
Hazard(m) ==
    \/ m.pos < wav_get_header_size(m.chunk)
    \/ m.chunk.format_chunk.block_align = 0
    \/ m.chunk.format_chunk.n_channels = 0

BuildsAt(m) ==
    IF Hazard(m) THEN Builds ELSE {[ndebug |-> FALSE, dz |-> "trap"]}

\* the value the caller stores for channel i, frame j: a value of the sample
\* width, near the top of the positive or the bottom of the negative range
SampleValue(pat, i, j, sample_size) ==
    IF sample_size = 0 THEN 0
    ELSE IF pat = "pos"
         THEN 127 * Pow256(sample_size - 1) + (Pow256(sample_size - 1) - 1)
              - (i + 2 * j)
    ELSE (-128) * Pow256(sample_size - 1) + (i + 2 * j)

CallerBuffers(pat, n_channels, sample_size, count) ==
    [i \in 1..n_channels |->
        [j \in 1..count |-> SampleValue(pat, i, j, sample_size)]]

\* frame j of the caller's buffers
FramesOf(buffers, count) ==
    [j \in 1..count |-> [i \in 1..Len(buffers) |-> buffers[i][j]]]

\* the on-disk header of a WAV file with the given chunk fields: RIFF header
\* and form id, fmt chunk, the chunk that follows it (id next, 4-byte body
\* when it is not the data chunk) and the data chunk header
FileChunk(tag, n_channels, sample_size, fmt_size, data_size) ==
    [ZeroChunk EXCEPT
        !.id = WAV_RIFF_CHUNK_ID,
        !.size = 4 + 8 + fmt_size + 8 + data_size + (data_size % 2),
        !.wave_id = WAV_WAVE_ID,
        !.format_chunk.id = WAV_FORMAT_CHUNK_ID,
        !.format_chunk.size = fmt_size,
        !.format_chunk.format_tag = tag,
        !.format_chunk.n_channels = n_channels,
        !.format_chunk.sample_rate = 8000,
        !.format_chunk.avg_bytes_per_sec = 8000 * n_channels * sample_size,
        !.format_chunk.block_align = n_channels * sample_size,
        !.format_chunk.bits_per_sample = 8 * sample_size,
        !.format_chunk.ext_size = IF fmt_size = 40 THEN 22 ELSE 0,
        !.format_chunk.valid_bits_per_sample =
            IF fmt_size = 40 THEN 8 * sample_size ELSE 0,
        !.format_chunk.sub_format =
            IF fmt_size = 40 THEN default_sub_format ELSE Zeros(16),
        !.data_chunk.id = WAV_DATA_CHUNK_ID,
        !.data_chunk.size = data_size]

FileHeader(c, next) ==
    LET img == Encode(c) IN
    SubSeq(img, 1, 12) \o
    SubSeq(img, OffFormatChunk + 1, OffFormatChunk + 8 + c.format_chunk.size) \o
    (IF next = WAV_DATA_CHUNK_ID THEN <<>>
     ELSE LE(next, 4) \o LE(4, 4) \o
          LE(c.data_chunk.size \div Max(1, c.format_chunk.block_align), 4)) \o
    SubSeq(img, OffDataChunk + 1, OffDataChunk + 8)

\* payload byte x of a prepared file
Payload(n) == [x \in 1..n |-> (37 * x + 120) % 256]

\* a well-formed file: header, payload, pad byte after an odd payload
WavFileImage(tag, n_channels, sample_size, fmt_size, next, frames) ==
    LET data_size == frames * n_channels * sample_size IN
    FileHeader(FileChunk(tag, n_channels, sample_size, fmt_size, data_size),
               next)
    \o Payload(data_size) \o Zeros(data_size % 2)

----------------------------------------------------------------------------
(* State machine *)

Cur ==
    [bytes |-> bytes, exists |-> exists, open |-> open, mode |-> mode,
     pos |-> pos, eof |-> eof, err |-> err, error_code |-> error_code,
     chunk |-> chunk, dead |-> dead, rc |-> 0, ret |-> 0, out |-> <<>>]

Pre == [bytes |-> bytes, pos |-> pos, chunk |-> chunk, eof |-> eof,
        mode |-> mode]

NoCall == [op |-> "none", a |-> 0, a2 |-> 0, ret |-> 0, out |-> <<>>,
           k |-> 0, fin |-> <<>>, pre |-> [bytes |-> <<>>, pos |-> 0,
           chunk |-> ZeroChunk, eof |-> FALSE, mode |-> <<>>]]

Call(op, a, a2, m) ==
    [op |-> op, a |-> a, a2 |-> a2, ret |-> m.ret, out |-> m.out, k |-> 0,
     fin |-> <<>>, pre |-> Pre]

Commit(m) ==
    /\ bytes' = m.bytes /\ exists' = m.exists /\ open' = m.open
    /\ mode' = m.mode /\ pos' = m.pos /\ eof' = m.eof /\ err' = m.err
    /\ error_code' = m.error_code /\ chunk' = m.chunk /\ dead' = m.dead

\* the state in which no handle exists
Freed(m) ==
    [m EXCEPT !.mode = <<>>, !.pos = 0, !.eof = FALSE, !.err = FALSE,
              !.chunk = ZeroChunk]

\* sample sizes the container table has an entry for
InTable(c) ==
    c.format_chunk.n_channels = 0
    \/ c.format_chunk.block_align \div c.format_chunk.n_channels
           < Len(wav_container_sizes)

NoHandle ==
    /\ open = FALSE /\ mode = <<>>
    /\ pos = 0 /\ eof = FALSE /\ err = FALSE /\ error_code = "WAV_OK"
    /\ chunk = ZeroChunk /\ dead = FALSE /\ last = NoCall /\ wlog = <<>>
    /\ omode = <<>> /\ usable = FALSE /\ calls = 0

\* wav_open(filename, md)
Open(md) ==
    /\ ~dead /\ ~open
    /\ \E m \in {wav_init(Cur, md)} :
       /\ Len(m.bytes) <= MaxFileLen
       /\ Commit(m)
       /\ last' = Call("open", md, 0, m)
       /\ wlog' = IF m.open /\ m.mode[1] = "w" THEN <<>> ELSE wlog
       /\ omode' = md /\ usable' = (m.error_code = "WAV_OK")

\* wav_reopen(self, filename, md)
Reopen(md) ==
    /\ ~dead /\ open
    /\ \E f \in {wav_finalize(Cur)} : \E m \in {wav_init(f, md)} :
       /\ Len(m.bytes) <= MaxFileLen /\ Len(f.bytes) <= MaxFileLen
       /\ Commit(m)
       /\ last' = [Call("reopen", md, 0, m) EXCEPT !.fin = f.bytes]
       /\ wlog' = IF m.open /\ m.mode[1] = "w" THEN <<>> ELSE wlog
       /\ omode' = md /\ usable' = (m.error_code = "WAV_OK")

\* wav_close(self)
Close ==
    /\ ~dead /\ open
    /\ \E f \in {wav_finalize(Cur)} :
       /\ Len(f.bytes) <= MaxFileLen
       /\ Commit(Freed(f))
       /\ last' = [Call("close", 0, 0, f) EXCEPT !.fin = f.bytes]
       /\ omode' = <<>> /\ usable' = FALSE
       /\ UNCHANGED wlog

\* a setter call op(self, a) that leaves the machine state m
Setter(op, a, m) ==
    /\ ~dead /\ open /\ usable
    /\ Len(m.bytes) <= MaxFileLen
    /\ Commit(m)
    /\ last' = Call(op, a, 0, m)
    /\ UNCHANGED <<wlog, omode, usable>>

SetFormat(format)   == Setter("set_format", format, wav_set_format(Cur, format))
SetNumChannels(n)   == Setter("set_num_channels", n, wav_set_num_channels(Cur, n))
SetSampleRate(r)    == Setter("set_sample_rate", r, wav_set_sample_rate(Cur, r))
SetValidBits(bits)  == Setter("set_valid_bits_per_sample", bits,
                              wav_set_valid_bits_per_sample(Cur, bits))
SetSampleSize(n)    == Setter("set_sample_size", n, wav_set_sample_size(Cur, n))
SetChannelMask(x)   == Setter("set_channel_mask", x, wav_set_channel_mask(Cur, x))
SetSubFormat(x)     == Setter("set_sub_format", x, wav_set_sub_format(Cur, x))

\* wav_write(self, buffers, count)
Write(pat, count, b) ==
    /\ ~dead /\ open /\ usable /\ InTable(chunk)
    /\ Len(wlog) + count <= MaxWritten
    /\ \E buffers \in {CallerBuffers(pat, wav_get_num_channels(chunk),
                                      wav_get_sample_size(chunk, b.dz), count)} :
       \E m \in {wav_write(Cur, buffers, count, b)} :
       /\ Len(m.bytes) <= MaxFileLen
       /\ Commit(m)
       /\ last' = Call("write", count, buffers, m)
       /\ wlog' = IF ~m.dead /\ m.ret > 0
                  THEN wlog \o FramesOf(buffers, m.ret) ELSE wlog
       /\ UNCHANGED <<omode, usable>>

\* wav_read(self, buffers, count)
Read(count, b) ==
    /\ ~dead /\ open /\ usable /\ InTable(chunk)
    /\ \E m \in {wav_read(Cur, count, b)} :
       /\ Commit(m)
       /\ last' = Call("read", count, 0, m)
       /\ UNCHANGED <<wlog, omode, usable>>

\* wav_seek(self, offset, origin)
Seek(offset, origin, b) ==
    /\ ~dead /\ open /\ usable
    /\ \E m \in {wav_seek(Cur, offset, origin, b)} :
       /\ Commit(m)
       /\ last' = [Call("seek", offset, origin, m) EXCEPT
                      !.k = SeekResolved(Cur, offset, origin, b)]
       /\ UNCHANGED <<wlog, omode, usable>>

\* wav_tell(self)
Tell(b) ==
    /\ ~dead /\ open /\ usable
    /\ \E m \in {wav_tell(Cur, b)} :
       /\ Commit(m)
       /\ last' = Call("tell", 0, 0, m)
       /\ UNCHANGED <<wlog, omode, usable>>

\* a run of at most n calls
Counted(n) == calls < n /\ calls' = calls + 1
Uncounted  == UNCHANGED calls

----------------------------------------------------------------------------
(* Spec: one handle on one file, which is absent or a well-formed WAV file  *)
(* at the start; any calls in any order, MaxCalls of them                    *)

InitialFiles ==
    { WavFileImage(WAV_FORMAT_PCM, 1, 1, 16, WAV_DATA_CHUNK_ID, 3),
      WavFileImage(WAV_FORMAT_PCM, 2, 3, 16, WAV_DATA_CHUNK_ID, 2) }

Init ==
    /\ \/ bytes = <<>> /\ exists = FALSE
       \/ bytes \in InitialFiles /\ exists = TRUE
    /\ NoHandle

Next ==
    \/ \E md \in BasicModes : last.op = "none" /\ Counted(MaxCalls) /\ Open(md)
    \/ \E md \in ReopenModes : Counted(MaxCalls) /\ Reopen(md)
    \/ Counted(MaxCalls) /\ Close
    \/ \E f \in IoFormats : Counted(MaxCalls) /\ SetFormat(f)
    \/ \E n \in IoChannels : Counted(MaxCalls) /\ SetNumChannels(n)
    \/ \E n \in IoSampleSizes : Counted(MaxCalls) /\ SetSampleSize(n)
    \/ \E c \in Counts, b \in BuildsAt(Cur) :
          Counted(MaxCalls) /\ Write("neg", c, b)
    \/ \E c \in Counts, b \in BuildsAt(Cur) : Counted(MaxCalls) /\ Read(c, b)
    \/ \E o \in Offsets, g \in Origins, b \in BuildsAt(Cur) :
          Counted(MaxCalls) /\ Seek(o, g, b)
    \/ \E b \in BuildsAt(Cur) : Counted(MaxCalls) /\ Tell(b)

Spec == Init /\ [][Next]_vars

----------------------------------------------------------------------------
(* SpecClose: a handle opened for writing or appending is configured,       *)
(* written to, possibly repositioned, and then closed or reopened            *)

InitClose == bytes = <<>> /\ exists = FALSE /\ NoHandle

NextClose ==
    \/ \E md \in {<<"w">>, <<"a">>} :
          last.op = "none" /\ Counted(MaxCloseCalls) /\ Open(md)
    \/ Counted(MaxCloseCalls) /\ SetNumChannels(1)
    \/ \E n \in IoSampleSizes : Counted(MaxCloseCalls) /\ SetSampleSize(n)
    \/ \E r \in SampleRates : Counted(MaxCloseCalls) /\ SetSampleRate(r)
    \/ \E c \in 1..MaxCount, b \in BuildsAt(Cur) :
          Counted(MaxCloseCalls) /\ Write("neg", c, b)
    \/ \E b \in BuildsAt(Cur) :
          Counted(MaxCloseCalls) /\ Seek(0, "SEEK_SET", b)
    \/ Counted(MaxCloseCalls) /\ Close
    \/ Counted(MaxCloseCalls) /\ Reopen(<<"r">>)

SpecClose == InitClose /\ [][NextClose]_vars

----------------------------------------------------------------------------
(* SpecModes: the file is opened with every mode string, then read from     *)
(* and written to                                                            *)

InitModes ==
    /\ \/ bytes = <<>> /\ exists = FALSE
       \/ bytes \in InitialFiles /\ exists = TRUE
    /\ NoHandle

NextModes ==
    \/ \E md \in ModeStrings : last.op \in {"none", "close"} /\ Uncounted /\ Open(md)
    \/ \E b \in BuildsAt(Cur) : Uncounted /\ Read(1, b)
    \/ \E b \in BuildsAt(Cur) : Uncounted /\ Write("pos", 1, b)
    \/ Uncounted /\ Close

SpecModes == InitModes /\ [][NextModes]_vars

----------------------------------------------------------------------------
(* SpecParse: prepared files are opened for reading or appending            *)

Tags == {WAV_FORMAT_PCM, WAV_FORMAT_IEEE_FLOAT, WAV_FORMAT_ALAW,
         WAV_FORMAT_MULAW, WAV_FORMAT_EXTENSIBLE, 0, 2}
FmtSizes == {16, 18, 40}
NextIds == {WAV_DATA_CHUNK_ID, WAV_FACT_CHUNK_ID, LIST_CHUNK_ID}

\* well-formed up to the chunk that follows fmt, which has the id next
ParseFiles ==
    { WavFileImage(tag, n, 2, fs, next, frames) :
        tag \in Tags, n \in 1..MaxChannels, fs \in FmtSizes, next \in NextIds,
        frames \in {0, 2} }

\* files that are cut short or carry a wrong magic
BrokenFiles ==
    LET good == WavFileImage(WAV_FORMAT_PCM, 1, 2, 16, WAV_DATA_CHUNK_ID, 1) IN
    { SubSeq(good, 1, n) : n \in {0, 6, 12, 20, 30, 40} }
    \cup { Overlay(good, off, <<88>>) : off \in {0, 8, 12} }

\* files whose header parses and records 2 frames of 2 bytes, while the file
\* ends after 1 frame, or in the middle of the second frame
ShortFiles ==
    LET good == WavFileImage(WAV_FORMAT_PCM, 1, 2, 16, WAV_DATA_CHUNK_ID, 2) IN
    { SubSeq(good, 1, Len(good) - n) : n \in {1, 2} }

\* files whose header parses and whose block_align (3, at byte 32) is not the
\* sample size times the 2 channels; the payload is 4 bytes
SkewedFiles ==
    { Overlay(WavFileImage(WAV_FORMAT_PCM, 2, 1, 16, WAV_DATA_CHUNK_ID, 2),
              32, <<3, 0>>) }

InitParse ==
    /\ bytes \in ParseFiles \cup BrokenFiles \cup ShortFiles \cup SkewedFiles
    /\ exists = TRUE
    /\ NoHandle

NextParse ==
    \/ \E md \in {<<"r">>, <<"a">>} : last.op = "none" /\ Uncounted /\ Open(md)
    \/ \E b \in BuildsAt(Cur) : last.op = "open" /\ Uncounted /\ Tell(b)
    \/ \E c \in 1..MaxCount, b \in BuildsAt(Cur) :
          last.op \in {"open", "read"} /\ Uncounted /\ Read(c, b)
    \/ Uncounted /\ Close

SpecParse == InitParse /\ [][NextParse]_vars

----------------------------------------------------------------------------
(* SpecRT: write, close, reopen for reading, read everything back           *)

RtSetters == {"open", "set_format", "set_num_channels", "set_sample_size"}

InitRT == bytes = <<>> /\ exists = FALSE /\ NoHandle

NextRT ==
    \/ last.op = "none" /\ Uncounted /\ Open(<<"w">>)
    \/ \E f \in {WAV_FORMAT_PCM, WAV_FORMAT_EXTENSIBLE} :
          last.op \in RtSetters /\ Chr(mode, 1) = "w" /\ Uncounted /\ SetFormat(f)
    \/ \E n \in IoChannels :
          last.op \in RtSetters /\ Chr(mode, 1) = "w" /\ Uncounted
          /\ SetNumChannels(n)
    \/ \E n \in 1..4 :
          last.op \in RtSetters /\ Chr(mode, 1) = "w" /\ Uncounted
          /\ SetSampleSize(n)
    \/ \E pat \in Patterns, c \in 1..MaxCount, b \in BuildsAt(Cur) :
          /\ last.op \in RtSetters \cup {"write"} /\ Chr(mode, 1) = "w"
          /\ chunk.format_chunk.format_tag = WAV_FORMAT_PCM
          /\ wav_get_sample_size(chunk, b.dz) \in 1..4
          /\ Uncounted /\ Write(pat, c, b)
    \/ last.op = "write" /\ Uncounted /\ Close
    \/ last.op = "write" /\ Uncounted /\ Reopen(<<"r">>)
    \/ last.op = "close" /\ Uncounted /\ Open(<<"r">>)
    \/ \E b \in BuildsAt(Cur) :
          /\ last.op \in {"open", "reopen"} /\ Chr(mode, 1) = "r"
          /\ Uncounted /\ Read(Len(wlog), b)

SpecRT == InitRT /\ [][NextRT]_vars

----------------------------------------------------------------------------
(* SpecFmt: a handle on a file that is absent or well-formed at the start   *)
(* is configured with every format mutator and written to, in any order,    *)
(* MaxFmtCalls calls in all                                                  *)

InitFmt ==
    /\ \/ bytes = <<>> /\ exists = FALSE
       \/ bytes \in InitialFiles /\ exists = TRUE
    /\ NoHandle

NextFmt ==
    \/ \E md \in BasicModes :
          last.op = "none" /\ Counted(MaxFmtCalls) /\ Open(md)
    \/ \E f \in Formats : Counted(MaxFmtCalls) /\ SetFormat(f)
    \/ \E n \in Channels : Counted(MaxFmtCalls) /\ SetNumChannels(n)
    \/ \E r \in SampleRates : Counted(MaxFmtCalls) /\ SetSampleRate(r)
    \/ \E n \in ValidBits : Counted(MaxFmtCalls) /\ SetValidBits(n)
    \/ \E n \in SampleSizes : Counted(MaxFmtCalls) /\ SetSampleSize(n)
    \/ \E x \in ChannelMasks : Counted(MaxFmtCalls) /\ SetChannelMask(x)
    \/ \E x \in SubFormats : Counted(MaxFmtCalls) /\ SetSubFormat(x)
    \/ \E c \in 1..MaxCount, b \in BuildsAt(Cur) :
          Counted(MaxFmtCalls) /\ Write("neg", c, b)

SpecFmt == InitFmt /\ [][NextFmt]_vars

----------------------------------------------------------------------------
(* Properties *)

\* the handle before the last call
PreHeaderSize == wav_get_header_size(last.pre.chunk)
PreDataSize   == last.pre.chunk.data_chunk.size
PreBlockAlign == last.pre.chunk.format_chunk.block_align
PreLength     == IF PreBlockAlign = 0 THEN 0 ELSE PreDataSize \div PreBlockAlign
PreTag        == last.pre.chunk.format_chunk.format_tag

\* C1: frames written through a write handle configured to a sample size of
\* 1..4 bytes and to any channel count are returned unchanged, all of them,
\* by a read of the reopened file
C1_RoundTrip ==
    (last.op = "read" /\ Chr(last.pre.mode, 1) = "r") =>
        /\ ~dead
        /\ error_code = "WAV_OK"
        /\ last.ret = Len(wlog)
        /\ Len(last.out) = Len(wlog[1])
        /\ \A i \in 1..Len(last.out) : \A j \in 1..Len(wlog) :
              /\ Len(last.out[i]) = Len(wlog)
              /\ last.out[i][j] = wlog[j][i]

\* C2: a successful wav_seek to the frame offset k leaves the stream at
\* header_length + k * block_align
C2_SeekRepositions ==
    (last.op = "seek" /\ ~dead /\ error_code = "WAV_OK") =>
        pos = wav_get_header_size(chunk)
              + last.k * chunk.format_chunk.block_align

\* C3: wav_seek to a frame offset below 0 or above length reports a parameter
\* error and changes neither the stream nor the chunk model
C3_SeekOutOfRange ==
    (last.op = "seek" /\ ~dead /\ (last.k < 0 \/ last.k > PreLength)) =>
        /\ error_code = "WAV_ERR_PARAM"
        /\ pos = last.pre.pos
        /\ bytes = last.pre.bytes
        /\ chunk = last.pre.chunk

C3_Witness ==
    /\ last.op = "seek" /\ ~dead
    /\ PreLength >= 1 /\ last.k = PreLength + 1
    /\ error_code = "WAV_ERR_PARAM"
    /\ pos = last.pre.pos /\ pos >= PreHeaderSize + PreDataSize

\* C4: opening in write mode yields the 2-channel / 44100 Hz / 16-bit PCM
\* model with a 16-byte fmt chunk and no fact chunk, a 44-byte header, and
\* the stream at offset 44
C4_WriteOpenDefaults ==
    (last.op \in {"open", "reopen"} /\ open /\ Chr(mode, 1) = "w"
     /\ error_code = "WAV_OK") =>
        /\ chunk.format_chunk.format_tag = WAV_FORMAT_PCM
        /\ chunk.format_chunk.n_channels = 2
        /\ chunk.format_chunk.sample_rate = 44100
        /\ chunk.format_chunk.bits_per_sample = 16
        /\ chunk.format_chunk.block_align = 4
        /\ chunk.format_chunk.size = 16
        /\ chunk.fact_chunk.id # WAV_FACT_CHUNK_ID
        /\ wav_get_header_size(chunk) = 44
        /\ pos = 44

\* C5: closing or reopening a write or append handle whose data size is odd
\* appends exactly one zero byte after the payload: the file then is
\* header_length + data_chunk.size + 1 bytes long
C5_PadOnClose ==
    (last.op \in {"close", "reopen"} /\ Chr(last.pre.mode, 1) \in {"w", "a"}
     /\ PreDataSize % 2 = 1) =>
        /\ Len(last.fin) = PreHeaderSize + PreDataSize + 1
        /\ last.fin[Len(last.fin)] = 0
        /\ SubSeq(last.fin, 1, Len(last.fin) - 1) = last.pre.bytes

\* C6, as the specification states it: wav_write on a pure read handle
\* reports a mode error, returns 0 and changes nothing; wav_read and
\* wav_write on an extensible handle report a format error and return 0
C6_Original ==
    /\ (last.op = "write" /\ last.pre.mode = <<"r", "b">>) =>
          /\ error_code = "WAV_ERR_MODE" /\ last.ret = 0
          /\ bytes = last.pre.bytes /\ pos = last.pre.pos
          /\ chunk = last.pre.chunk
    /\ (last.op \in {"read", "write"} /\ PreTag = WAV_FORMAT_EXTENSIBLE) =>
          /\ error_code = "WAV_ERR_FORMAT" /\ last.ret = 0

\* the open mode permits the last call (the mode strings of wav_init)
PreModePermits ==
    IF last.op = "read" THEN last.pre.mode \notin {<<"w", "b">>, <<"w", "b", "x">>, <<"a", "b">>}
    ELSE last.pre.mode # <<"r", "b">>

\* C6, amended: wav_write on a pure read handle reports a mode error,
\* returns 0 and changes nothing; wav_read and wav_write on an extensible
\* handle return 0 and report a format error when the open mode permits the
\* call, and a mode error when it does not
C6_ModeAndFormatErrors ==
    /\ (last.op = "write" /\ last.pre.mode = <<"r", "b">>) =>
          /\ error_code = "WAV_ERR_MODE" /\ last.ret = 0
          /\ bytes = last.pre.bytes /\ pos = last.pre.pos
          /\ chunk = last.pre.chunk
    /\ (last.op \in {"read", "write"} /\ PreTag = WAV_FORMAT_EXTENSIBLE) =>
          /\ last.ret = 0
          /\ error_code = IF PreModePermits THEN "WAV_ERR_FORMAT"
                          ELSE "WAV_ERR_MODE"
          /\ bytes = last.pre.bytes /\ pos = last.pre.pos

C6_Witness ==
    /\ last.op = "write" /\ last.a > 0 /\ last.pre.mode = <<"r", "b">>
    /\ error_code = "WAV_ERR_MODE" /\ last.ret = 0
    /\ bytes = last.pre.bytes /\ Len(bytes) > 0

\* C7: wav_read reports a mode error only on handles opened write-only,
\* wav_write only on handles opened read-only; a handle opened with a
\* read-write mode string is refused neither
C7_ModeErrorsOnlyWhereDisallowed ==
    /\ (last.op = "read" /\ error_code = "WAV_ERR_MODE") =>
          omode \in WriteOnlyStrings
    /\ (last.op = "write" /\ error_code = "WAV_ERR_MODE") =>
          omode \in ReadOnlyStrings
    /\ (last.op \in {"read", "write"} /\ omode \in ReadWriteStrings) =>
          error_code # "WAV_ERR_MODE"

\* the file image f, read by its layout: the fmt size, the chunk header that
\* follows the fmt body, and whether the file is well-formed up to there
\* with one of the four plain format tags
FileFmtSize(f)  == Fld(f, 16, 4)
FileTag(f)      == Fld(f, 20, 2)
FileNextId(f)   == Fld(f, 20 + FileFmtSize(f), 4)
FileNextSize(f) == Fld(f, 24 + FileFmtSize(f), 4)
PlainTags == {WAV_FORMAT_PCM, WAV_FORMAT_IEEE_FLOAT, WAV_FORMAT_ALAW,
              WAV_FORMAT_MULAW}
FileFmtOk(f) ==
    /\ Len(f) >= 28
    /\ Fld(f, 0, 4) = WAV_RIFF_CHUNK_ID /\ Fld(f, 8, 4) = WAV_WAVE_ID
    /\ Fld(f, 12, 4) = WAV_FORMAT_CHUNK_ID
    /\ FileFmtSize(f) \in FmtSizes
    /\ Len(f) >= 28 + FileFmtSize(f)

OpenedForReading == last.op = "open" /\ last.a = <<"r">>

\* C8: a chunk header after the fmt body whose id is neither "fact" nor
\* "data" makes the parse fail with a format error
C8_ForeignChunkRejected ==
    (OpenedForReading /\ FileFmtOk(last.pre.bytes)
     /\ FileTag(last.pre.bytes) \in PlainTags
     /\ FileNextId(last.pre.bytes) \notin {WAV_FACT_CHUNK_ID, WAV_DATA_CHUNK_ID})
        => error_code = "WAV_ERR_FORMAT"

\* C9: a well-formed header parses with status OK exactly when its format
\* tag is PCM, IEEE float, A-law, mu-law or extensible
C9_FiveTagsAccepted ==
    (OpenedForReading /\ FileFmtOk(last.pre.bytes)
     /\ FileNextId(last.pre.bytes) = WAV_DATA_CHUNK_ID) =>
        IF FileTag(last.pre.bytes) \in PlainTags \cup {WAV_FORMAT_EXTENSIBLE}
        THEN error_code = "WAV_OK" ELSE error_code = "WAV_ERR_FORMAT"

\* C10: when "data" follows the fmt chunk the parse succeeds, the data chunk
\* is the header just read, the fact chunk is marked absent and the stream
\* is at the first payload byte, which is at wav_get_header_size()
C10_DataAfterFmt ==
    (OpenedForReading /\ FileFmtOk(last.pre.bytes)
     /\ FileTag(last.pre.bytes) \in PlainTags
     /\ FileNextId(last.pre.bytes) = WAV_DATA_CHUNK_ID) =>
        /\ error_code = "WAV_OK"
        /\ chunk.data_chunk.id = WAV_DATA_CHUNK_ID
        /\ chunk.data_chunk.size = FileNextSize(last.pre.bytes)
        /\ chunk.fact_chunk.id = chunk.data_chunk.id
        /\ wav_get_header_size(chunk) = 28 + FileFmtSize(last.pre.bytes)
        /\ pos = wav_get_header_size(chunk)

C10_Witness ==
    /\ OpenedForReading /\ FileFmtOk(last.pre.bytes)
    /\ FileTag(last.pre.bytes) = WAV_FORMAT_IEEE_FLOAT
    /\ FileFmtSize(last.pre.bytes) = 18
    /\ FileNextId(last.pre.bytes) = WAV_DATA_CHUNK_ID
    /\ error_code = "WAV_OK" /\ chunk.data_chunk.size > 0
    /\ pos = 46 /\ Len(bytes) = pos + chunk.data_chunk.size

\* the frame position wav_tell computes from the state before the last call
PreTell ==
    IF PreBlockAlign = 0 THEN 0
    ELSE CDiv(last.pre.pos - PreHeaderSize, PreBlockAlign)

\* the last call was the first write of samples on a handle opened with "w",
\* and it wrote at least one frame
FirstWrite ==
    /\ last.op = "write" /\ ~dead /\ Chr(mode, 1) = "w"
    /\ error_code = "WAV_OK" /\ last.ret > 0 /\ PreDataSize = 0

\* C11: on a handle opened for writing, whatever format mutators ran before,
\* the first write of samples starts at the stream offset that
\* wav_get_header_size computes from the model, and after it the file holds
\* the header and, from that offset on, the bytes of the payload
C11_PayloadAfterHeader ==
    FirstWrite =>
        /\ last.pre.pos = wav_get_header_size(chunk)
        /\ pos = wav_get_header_size(chunk) + chunk.data_chunk.size
        /\ SubSeq(bytes, 1, wav_get_header_size(chunk))
              = FileHeader(chunk, WAV_DATA_CHUNK_ID)
        /\ SubSeq(bytes, wav_get_header_size(chunk) + 1, pos)
              = Interleave(last.a2, wav_get_num_channels(chunk),
                           PreBlockAlign \div wav_get_num_channels(chunk),
                           wav_calc_container_size(
                               PreBlockAlign \div wav_get_num_channels(chunk)),
                           last.ret)

\* a first write behind a header that format mutators made longer than the
\* one written on open
C11_Witness ==
    /\ FirstWrite
    /\ chunk.format_chunk.format_tag = WAV_FORMAT_ALAW
    /\ wav_get_header_size(chunk) > WAV_RIFF_HEADER_SIZE + 28
    /\ chunk.data_chunk.size = 2

\* the result of parsing, through a readable stream, the file as it was
\* before the last call
PreFileParse ==
    wav_parse_header(Fopen([Zeroed(Cur) EXCEPT !.bytes = last.pre.bytes,
                                               !.exists = TRUE,
                                               !.mode = <<"r", "b">>],
                           <<"r", "b">>))

\* the last call opened an existing file in an append mode
AppendOpened == last.op = "open" /\ Chr(last.a, 1) = "a" /\ open /\ ~dead

\* C12: opening an existing file in an append mode ends with status OK; when
\* the file's header parses, the model is the parsed one and the file is not
\* touched; when it does not parse, the model holds the write-mode defaults
\* and the file starts with the fresh header written from offset 0
C12_AppendFallback ==
    AppendOpened =>
        /\ error_code = "WAV_OK"
        /\ IF PreFileParse.error_code = "WAV_OK"
           THEN chunk = PreFileParse.chunk /\ bytes = last.pre.bytes
           ELSE /\ chunk.format_chunk.format_tag = WAV_FORMAT_PCM
                /\ chunk.format_chunk.n_channels = 2
                /\ chunk.format_chunk.sample_rate = 44100
                /\ chunk.format_chunk.bits_per_sample = 16
                /\ chunk.fact_chunk.id # WAV_FACT_CHUNK_ID
                /\ chunk.data_chunk.size = 0
                /\ SubSeq(bytes, 1, wav_get_header_size(chunk))
                      = FileHeader(chunk, WAV_DATA_CHUNK_ID)

\* the last call was wav_read on a readable handle whose tag is not
\* extensible
ReadOnReadable ==
    /\ last.op = "read" /\ ~dead /\ ~ReadRefused(last.pre.mode)
    /\ PreTag # WAV_FORMAT_EXTENSIBLE
    /\ PreBlockAlign > 0

\* what C13 says of a read
ReadClamped ==
    /\ error_code = "WAV_OK"
    /\ last.ret = Min(last.a, PreLength - PreTell)
    /\ CDiv(pos - wav_get_header_size(chunk), PreBlockAlign)
          = PreTell + last.ret
    /\ (PreTell = PreLength => last.ret = 0 /\ pos = last.pre.pos)

\* the file holds all the data its header records, and block_align is the
\* size of one frame as wav_read reads it
ReadOnComplete ==
    /\ ReadOnReadable
    /\ Len(last.pre.bytes) >= PreHeaderSize + PreDataSize
    /\ PreBlockAlign = last.pre.chunk.format_chunk.n_channels
                         * (PreBlockAlign \div
                              last.pre.chunk.format_chunk.n_channels)

\* C13, as the specification states it: wav_read(count) on a readable handle
\* whose tag is not extensible returns min(count, length - tell) frames with
\* status OK and moves the frame position forward by that number; at the end
\* of the data it returns 0 with status OK and reads nothing
C13_Original == ReadOnReadable => ReadClamped

\* C13: on a readable handle whose tag is not extensible, whose block_align
\* is n_channels times the sample size and whose file holds the recorded
\* data, wav_read(count) returns min(count, length - tell) frames with status
\* OK, fills one buffer per channel with that many samples, leaves file and
\* model alone and moves the stream forward by that many frames; at the end
\* of the data it returns 0 with status OK and reads nothing
C13_ReadClamped ==
    ReadOnComplete =>
        /\ ReadClamped
        /\ pos = last.pre.pos + last.ret * PreBlockAlign
        /\ (last.ret > 0 => Len(last.out) = wav_get_num_channels(chunk))
        /\ \A i \in 1..Len(last.out) : Len(last.out[i]) = last.ret
        /\ bytes = last.pre.bytes /\ chunk = last.pre.chunk

\* a read that asks for more frames than remain and gets the one that does
C13_Witness ==
    /\ ReadOnComplete
    /\ last.a = 2 /\ PreLength - PreTell = 1 /\ last.ret = 1

\* the number of frames the last wav_read asked the stream for
PreClamped == ClampCount(last.a, PreLength - PreTell)

\* the last call was a wav_read that got fewer bytes from the stream than the
\* clamped request, or a wav_write that stored fewer frames than it was given
ShortTransfer ==
    \/ /\ ReadOnReadable
       /\ Len(last.pre.bytes) - last.pre.pos
              < PreClamped * last.pre.chunk.format_chunk.n_channels
                  * (PreBlockAlign \div last.pre.chunk.format_chunk.n_channels)
    \/ /\ last.op = "write" /\ ~dead /\ ~WriteRefused(last.pre.mode)
       /\ PreTag # WAV_FORMAT_EXTENSIBLE
       /\ last.ret < last.a

\* C14: a wav_read or wav_write whose stream transfers fewer sample units
\* than the clamped request reports the OS error and returns 0
C14_ShortTransferIsError ==
    ShortTransfer => error_code = "WAV_ERR_OS" /\ last.ret = 0

SetterOps ==
    {"set_format", "set_num_channels", "set_sample_rate",
     "set_valid_bits_per_sample", "set_sample_size", "set_channel_mask",
     "set_sub_format"}

\* the last call was a setter
SetterCalled == last.op \in SetterOps /\ ~dead

\* the error the validation of the last setter call ends with, or "pass"
SetterVerdict ==
    IF Chr(last.pre.mode, 1) = "r" THEN "WAV_ERR_MODE"
    ELSE IF last.op = "set_num_channels" /\ last.a < 1 THEN "WAV_ERR_PARAM"
    ELSE IF last.op = "set_sample_size" /\ last.a < 1 THEN "WAV_ERR_PARAM"
    ELSE IF last.op = "set_valid_bits_per_sample"
            /\ (\/ last.a < 1
                \/ last.a > (8 * PreBlockAlign)
                               \div last.pre.chunk.format_chunk.n_channels
                \/ PreTag \in {WAV_FORMAT_ALAW, WAV_FORMAT_MULAW} /\ last.a # 8)
         THEN "WAV_ERR_PARAM"
    ELSE IF last.op \in {"set_channel_mask", "set_sub_format"}
            /\ PreTag # WAV_FORMAT_EXTENSIBLE
         THEN "WAV_ERR_FORMAT"
    ELSE "pass"

\* the header writer run on the stream as it was before the last call, with
\* the model as the call left it
HeaderWritten ==
    wav_write_header([Cur EXCEPT !.bytes = last.pre.bytes,
                                 !.pos = last.pre.pos,
                                 !.eof = last.pre.eof])

\* C15: a setter on a read-only handle ends with the mode error;
\* set_num_channels(0) with the parameter error; set_valid_bits_per_sample
\* with bits < 1, bits > 8 * block_align / n_channels, or bits # 8 under the
\* A-law or mu-law tag, with the parameter error; set_channel_mask and
\* set_sub_format under a tag that is not extensible with the format error;
\* every other setter call runs the header writer and ends with its status
C15_SetterValidation ==
    SetterCalled =>
        IF SetterVerdict # "pass" THEN error_code = SetterVerdict
        ELSE /\ error_code = HeaderWritten.error_code
             /\ bytes = HeaderWritten.bytes
             /\ pos = HeaderWritten.pos
             /\ chunk = HeaderWritten.chunk

\* set_valid_bits_per_sample(12) refused under the A-law tag although 12 bits
\* fit the sample
C15_Witness ==
    /\ SetterCalled /\ last.op = "set_valid_bits_per_sample"
    /\ PreTag = WAV_FORMAT_ALAW /\ last.a = 12
    /\ last.a <= (8 * PreBlockAlign) \div last.pre.chunk.format_chunk.n_channels
    /\ error_code = "WAV_ERR_PARAM"

\* a handle opened for writing is in use
WriteHandle == open /\ usable /\ ~dead /\ Chr(mode, 1) = "w"

\* C16: on a write handle, whatever format mutators were called, block_align
\* is the sample size wav_get_sample_size returns times n_channels
C16_BlockAlign ==
    WriteHandle =>
        chunk.format_chunk.block_align
            = UDiv(chunk.format_chunk.block_align,
                   chunk.format_chunk.n_channels, "zero")
                * chunk.format_chunk.n_channels

\* C17: on a write handle, whatever format mutators were called,
\* avg_bytes_per_sec is block_align times sample_rate
C17_AvgBytes ==
    WriteHandle =>
        chunk.format_chunk.avg_bytes_per_sec
            = U32(chunk.format_chunk.block_align
                    * chunk.format_chunk.sample_rate)

\* C18: on a write handle, whatever format mutators and writes were called,
\* data_chunk.size is a multiple of block_align, and a write that stores
\* count frames makes wav_get_length grow by count
C18_WholeFrames ==
    WriteHandle =>
        /\ chunk.format_chunk.block_align > 0
        /\ chunk.data_chunk.size % chunk.format_chunk.block_align = 0
        /\ (last.op = "write" /\ error_code = "WAV_OK") =>
               wav_get_length(chunk, "zero") = PreLength + last.ret

\* the sizes of the chunks the header records, before padding
ChunkSizeSum ==
    4 + (8 + chunk.format_chunk.size) + (8 + chunk.data_chunk.size)
    + (IF chunk.fact_chunk.id = WAV_FACT_CHUNK_ID
       THEN 8 + chunk.fact_chunk.size ELSE 0)

\* the last call wrote the header: an open for writing or appending, a
\* setter that passed validation, or a write of at least one frame
HeaderJustWritten ==
    /\ open /\ usable /\ ~dead /\ Chr(mode, 1) \in {"w", "a"}
    /\ error_code = "WAV_OK"
    /\ \/ last.op = "open"
       \/ last.op \in SetterOps
       \/ last.op = "write" /\ last.a > 0

\* where the header written last starts: append mode puts it at the end of
\* the file
HeaderStart ==
    IF Chr(mode, 1) = "a" THEN Len(bytes) - wav_get_header_size(chunk) ELSE 0

\* C19: after every successful header write the recorded RIFF size is even
\* and is 4 + (8 + fmt.size) + (8 + data.size), plus 8 + fact.size when a
\* fact chunk is present, plus 1 when that sum is odd; the header on disk
\* carries that size; and data_chunk.size counts the sample bytes only
C19_RiffSize ==
    HeaderJustWritten =>
        /\ chunk.size % 2 = 0
        /\ chunk.size = ChunkSizeSum + (ChunkSizeSum % 2)
        /\ UVal(SubSeq(bytes, HeaderStart + 5, HeaderStart + 8)) = chunk.size
        /\ UVal(SubSeq(bytes, HeaderStart + wav_get_header_size(chunk) - 3,
                       HeaderStart + wav_get_header_size(chunk)))
              = chunk.data_chunk.size
        /\ chunk.data_chunk.size =
              IF last.op = "write"
              THEN PreDataSize + last.ret * wav_get_num_channels(chunk)
                                   * (PreBlockAlign \div wav_get_num_channels(chunk))
              ELSE IF last.op = "open" THEN 0 ELSE PreDataSize

\* a write that leaves an odd number of sample bytes: the RIFF size is
\* rounded up and data_chunk.size is not
C19_Witness ==
    /\ HeaderJustWritten /\ last.op = "write"
    /\ chunk.data_chunk.size % 2 = 1
    /\ chunk.size = ChunkSizeSum + 1

\* C20: after wav_set_format on a write handle the fmt chunk has size 40 and
\* ext_size 22 when the tag is extensible, and otherwise size 16, or size 18
\* with ext_size 0
C20_ExtensionBlock ==
    (WriteHandle /\ last.op = "set_format" /\ error_code = "WAV_OK") =>
        IF chunk.format_chunk.format_tag = WAV_FORMAT_EXTENSIBLE
        THEN chunk.format_chunk.size = 40 /\ chunk.format_chunk.ext_size = 22
        ELSE \/ chunk.format_chunk.size = 16
             \/ chunk.format_chunk.size = 18 /\ chunk.format_chunk.ext_size = 0

\* the last call was a wav_write that ended with status OK
WriteSucceeded ==
    /\ last.op = "write" /\ ~dead /\ ~WriteRefused(last.pre.mode)
    /\ error_code = "WAV_OK"

\* the bytes of one frame as wav_write stores it
PreFrameBytes ==
    last.pre.chunk.format_chunk.n_channels
        * UDiv(PreBlockAlign, last.pre.chunk.format_chunk.n_channels, "zero")

\* what C21 says of a write of count > 0 frames
WriteEffect ==
    /\ last.ret = last.a
    /\ chunk.data_chunk.size = PreDataSize + last.a * PreFrameBytes
    /\ chunk.fact_chunk.sample_length =
          last.pre.chunk.fact_chunk.sample_length
            + (IF chunk.fact_chunk.id = WAV_FACT_CHUNK_ID THEN last.a ELSE 0)
    /\ SubSeq(bytes, 1, wav_get_header_size(chunk))
          = FileHeader(chunk, WAV_DATA_CHUNK_ID)
    /\ pos = last.pre.pos + last.a * PreFrameBytes
    /\ chunk.format_chunk = last.pre.chunk.format_chunk

\* what C21 says of a write of 0 frames
WriteNothing ==
    /\ last.ret = 0 /\ bytes = last.pre.bytes /\ chunk = last.pre.chunk
    /\ pos = last.pre.pos

\* C21: a wav_write of count > 0 frames that ends with status OK returns
\* count, adds count * n_channels * sample_size to data_chunk.size, adds
\* count to the fact sample length iff a fact chunk is present, leaves the
\* header rewritten at offset 0, the cursor behind the bytes just written and
\* the format fields as they were; a wav_write of 0 frames changes nothing
C21_WriteFrame ==
    WriteSucceeded => IF last.a > 0 THEN WriteEffect ELSE WriteNothing

\* C22: a setter call that fails validation changes the status and nothing
\* else: the chunk model, the file and the stream position are as before
C22_FailedSetterFrame ==
    (SetterCalled /\ SetterVerdict # "pass") =>
        /\ error_code = SetterVerdict
        /\ chunk = last.pre.chunk
        /\ bytes = last.pre.bytes
        /\ pos = last.pre.pos /\ eof = last.pre.eof
        /\ mode = last.pre.mode /\ open

\* set_sub_format refused with the format error on a write handle that holds
\* samples
C22_Witness ==
    /\ SetterCalled /\ last.op = "set_sub_format"
    /\ Chr(mode, 1) = "w" /\ error_code = "WAV_ERR_FORMAT"
    /\ chunk.data_chunk.size > 0

\* the last call was a setter that passed validation on a handle opened
\* with "w" that holds samples
SetterAfterWrite ==
    /\ SetterCalled /\ SetterVerdict = "pass" /\ error_code = "WAV_OK"
    /\ Chr(mode, 1) = "w" /\ PreDataSize > 0

\* C23: a format mutator that succeeds after frames were written leaves the
\* stream where it was
C23_CursorRestored ==
    SetterAfterWrite => pos = last.pre.pos

\* the last call evaluated wav_tell: wav_tell itself, wav_read and wav_write
\* once their mode and format tests (and, in wav_write, the test for count 0)
\* have passed, wav_seek with origin SEEK_CUR
TellEvaluated ==
    \/ last.op = "tell"
    \/ /\ last.op = "read" /\ ~ReadRefused(last.pre.mode)
       /\ PreTag # WAV_FORMAT_EXTENSIBLE
    \/ /\ last.op = "write" /\ ~WriteRefused(last.pre.mode)
       /\ PreTag # WAV_FORMAT_EXTENSIBLE /\ last.a > 0
    \/ last.op = "seek" /\ last.a2 = "SEEK_CUR"

\* C24: whenever wav_tell is evaluated, by a caller or inside wav_read,
\* wav_write or wav_seek, the stream offset is at least the header length,
\* so the assertion in wav_tell holds
C24_TellAssertion ==
    TellEvaluated => last.pre.pos >= PreHeaderSize

====
